---- MODULE Spec2Model ----
(***************************************************************************)
(* A model of node-switchbot's humidifier device (src/src/device/wohumi.ts)*)
(* and of its parameter checker (src/unnamed/part_000).                    *)
(*                                                                         *)
(*   DecodeSpec   WoHumi.parseServiceData applied to advertisement buffers *)
(*   SessionSpec  WoHumi._operateBot calls over the command transport      *)
(*   SessionLive  SessionSpec with the fairness of the event loop          *)
(*   CheckSpec    the static methods of ParameterChecker, one call each    *)
(*   HistorySpec  calls of those methods one after another                 *)
(***************************************************************************)
EXTENDS Integers, Sequences, FiniteSets, TLC

VARIABLES
  \* --- WoHumi.parseServiceData -------------------------------------------
  buf,        \* the advertisement buffer handed to parseServiceData
  onlog,      \* the onlog argument: "function" or "undefined"
  data,       \* what parseServiceData returned (NotRun before the call)
  reads,      \* the byte offsets the call read with buf.readUInt8
  logged,     \* the messages the call passed to onlog
  \* --- WoHumi._operateBot and the command transport ----------------------
  scope,      \* which calls and responses the environment draws from
  calls,      \* per operate call: the promise chain of _operateBot
  inflight,   \* the exchange the session is waiting on (0: none)
  queue,      \* the exchanges waiting for the session
  air,        \* the written exchanges whose notification may still arrive
  \* --- ParameterChecker --------------------------------------------------
  call,       \* the static method called and its arguments
  result,     \* what the method returned (NotRun before the call)
  error,      \* the static property ParameterChecker.error
  trace       \* what the call evaluated: the rules' fields, in order

decodeVars == <<buf, onlog, data, reads, logged>>
sessionVars == <<scope, calls, inflight, queue, air>>
checkVars == <<call, result, error, trace>>
vars == <<decodeVars, sessionVars, checkVars>>

\* Records, so that they compare with the records the calls return.
NotRun == [is |-> "not run"]
Null == [is |-> "null"]
Undefined == [t |-> "undefined"]

(***************************************************************************)
(* Bytes and JavaScript's bitwise AND on them.                             *)
(***************************************************************************)
RECURSIVE BitAnd(_, _)
BitAnd(a, b) ==
  IF a = 0 \/ b = 0 THEN 0
  ELSE (a % 2) * (b % 2) + 2 * BitAnd(a \div 2, b \div 2)

\* buf.readUInt8(offset): offsets count from 0, sequences from 1.
readUInt8(b, offset) == b[offset + 1]

(***************************************************************************)
(* WoHumi.parseServiceData (wohumi.ts 8-31)                                *)
(***************************************************************************)
ExpectedLen == 8
OnMask == 128        \* 0b10000000
PercentMask == 127   \* 0b01111111

\* Mutant: auto mode does not force the percentage to 0.
parseRecordKeepsPercentage(b) ==
  LET byte1 == readUInt8(b, 1)
      byte4 == readUInt8(b, 4)
  IN [model |-> "e", modelName |-> "WoHumi",
      onState |-> BitAnd(byte1, OnMask) # 0,
      autoMode |-> BitAnd(byte4, OnMask) # 0,
      percentage |-> BitAnd(byte4, PercentMask)]

\* Mutant: the raw values 101..103 are taken out of the percentage field and
\* reported in a field of their own.
parseRecordGearAsMode(b) ==
  LET byte1 == readUInt8(b, 1)
      byte4 == readUInt8(b, 4)
      autoMode == BitAnd(byte4, OnMask) # 0
      percentage == BitAnd(byte4, PercentMask)
  IN IF ~autoMode /\ percentage \in 101 .. 103
     THEN [model |-> "e", modelName |-> "WoHumi",
           onState |-> BitAnd(byte1, OnMask) # 0,
           autoMode |-> autoMode,
           percentage |-> 0, quickGear |-> percentage - 100]
     ELSE [model |-> "e", modelName |-> "WoHumi",
           onState |-> BitAnd(byte1, OnMask) # 0,
           autoMode |-> autoMode,
           percentage |-> IF autoMode THEN 0 ELSE percentage]

\* Lines 15-28: the record built from bytes 1 and 4.
parseRecord(b) ==
  LET byte1 == readUInt8(b, 1)
      byte4 == readUInt8(b, 4)
      onState == BitAnd(byte1, OnMask) # 0
      autoMode == BitAnd(byte4, OnMask) # 0
      percentage == BitAnd(byte4, PercentMask)
  IN [model |-> "e", modelName |-> "WoHumi",
      onState |-> onState,
      autoMode |-> autoMode,
      percentage |-> IF autoMode THEN 0 ELSE percentage]

\* Mutant: the length check only refuses buffers that are too short.
lengthMismatchTooShortOnly(b) == Len(b) < ExpectedLen

\* Line 9: buf.length !== 8.
lengthMismatch(b) == Len(b) # ExpectedLen

\* The whole call: the returned value, the offsets read, the messages logged.
parseServiceData(b, log) ==
  IF lengthMismatch(b)
  THEN [data |-> Null, reads |-> {},
        logged |-> IF log = "function"
                   THEN << <<"[parseServiceDataForWoHumi] Buffer length ", Len(b), " !== 8!">> >>
                   ELSE <<>>]
  ELSE [data |-> parseRecord(b), reads |-> {1, 4}, logged |-> <<>>]

(***************************************************************************)
(* The advertisement buffers the decoder is run on.                        *)
(***************************************************************************)
MaxBufLen == 9
StatusBytes == {0, 127, 128, 255}      \* byte 1
LevelBytes == 0 .. 255                 \* byte 4
FillBytes == {0, 90, 255}              \* every other byte
OtherOffsets == {0, 2, 3, 5, 6, 7}

Buffers8 ==
  { [i \in 1 .. ExpectedLen |->
       IF i = 2 THEN b1 ELSE IF i = 5 THEN b4 ELSE f] :
    b1 \in StatusBytes, b4 \in LevelBytes, f \in {0, 255} }

ShortFill == {1, 128}
BuffersOfLen(n) == [1 .. n -> ShortFill]
BuffersAnyLen == UNION { BuffersOfLen(n) : n \in 0 .. MaxBufLen }

DecodeIdle ==
  /\ buf = <<>> /\ onlog = "undefined" /\ data = NotRun
  /\ reads = {} /\ logged = <<>>
SessionIdle ==
  /\ scope = "none" /\ calls = <<>> /\ inflight = 0
  /\ queue = <<>> /\ air = {}
CheckIdle ==
  /\ call = NotRun /\ result = NotRun /\ error = Undefined /\ trace = <<>>

DecodeInit ==
  /\ buf \in Buffers8 \cup BuffersAnyLen
  /\ onlog \in {"undefined", "function"}
  /\ data = NotRun /\ reads = {} /\ logged = <<>>
  /\ SessionIdle /\ CheckIdle

ParseServiceData ==
  /\ data = NotRun
  /\ LET r == parseServiceData(buf, onlog)
     IN /\ data' = r.data
        /\ reads' = r.reads
        /\ logged' = r.logged
  /\ UNCHANGED <<buf, onlog, sessionVars, checkVars>>

DecodeNext == ParseServiceData
DecodeSpec == DecodeInit /\ [][DecodeNext]_vars

(***************************************************************************)
(* WoHumi._operateBot (wohumi.ts 108-128) and the methods that call it.    *)
(***************************************************************************)
Methods == {"press", "turnOn", "turnOff", "down", "up"}

\* Lines 44-106: the command bytes of each method.
CommandBytes(m) ==
  CASE m = "press"   -> <<87, 1, 0>>
    [] m = "turnOn"  -> <<87, 1, 1>>
    [] m = "turnOff" -> <<87, 1, 2>>
    [] m = "down"    -> <<87, 1, 3>>
    [] m = "up"      -> <<87, 1, 4>>

HexDigits == <<"0", "1", "2", "3", "4", "5", "6", "7",
               "8", "9", "a", "b", "c", "d", "e", "f">>

\* res_buf.toString('hex'): two lower-case digits per byte, as characters.
RECURSIVE toHex(_)
toHex(b) ==
  IF b = <<>> THEN <<>>
  ELSE <<HexDigits[(Head(b) \div 16) + 1], HexDigits[(Head(b) % 16) + 1]>>
       \o toHex(Tail(b))

\* A message is the sequence of its pieces; a hex string is one piece a digit.
DeviceErrorPrefix == "The device returned an error: 0x"

\* What Buffer.readUInt8(0) throws on a buffer with no byte 0.
OutOfBounds ==
  [name |-> "RangeError",
   message |-> <<"Attempt to access memory outside buffer bounds">>]

Resolve == [kind |-> "resolve"]
Reject(e) == [kind |-> "reject", error |-> e]

\* Mutant: an unaccepted response is not rejected at all.
ThenHandlerForgetsReject(res_buf) ==
  IF Len(res_buf) = 0
  THEN [settle |-> <<>>, thrown |-> <<OutOfBounds>>]
  ELSE LET code == readUInt8(res_buf, 0)
       IN IF Len(res_buf) = 3 /\ (code = 1 \/ code = 5)
          THEN [settle |-> <<Resolve>>, thrown |-> <<>>]
          ELSE [settle |-> <<>>, thrown |-> <<>>]

\* Lines 112-123, the callback given to then(): the calls it makes to resolve
\* and reject, and what it throws. Line 113 reads byte 0 before line 114
\* looks at the length.
ThenHandler(res_buf) ==
  IF Len(res_buf) = 0
  THEN [settle |-> <<>>, thrown |-> <<OutOfBounds>>]
  ELSE LET code == readUInt8(res_buf, 0)
       IN IF Len(res_buf) = 3 /\ (code = 1 \/ code = 5)
          THEN [settle |-> <<Resolve>>, thrown |-> <<>>]
          ELSE [settle |->
                  <<Reject([name |-> "Error",
                            message |-> <<DeviceErrorPrefix>> \o toHex(res_buf)])>>,
                thrown |-> <<>>]

\* Mutant: the transport's error is wrapped in a new Error.
CatchHandlerWraps(e) ==
  <<Reject([name |-> "Error", message |-> <<"Command failed: ">> \o e.message])>>

\* Lines 124-126, the callback given to catch().
CatchHandler(e) == <<Reject(e)>>

(***************************************************************************)
(* SwitchBotDevice._command is not among the sources: the exchange is      *)
(* modelled from the specification's Device Session.  One exchange is in   *)
(* flight at a time, a command issued meanwhile is queued or refused, every*)
(* exchange is bounded by a timeout, and a notification that arrives for   *)
(* an exchange that is over is dropped.                                    *)
(***************************************************************************)
MaxCalls == 2
MaxRespLen == 4
RespBytes == {1, 2, 5, 171}

TransportErrors ==
  { [name |-> "Error", message |-> <<"write failed">>],
    [name |-> "Error", message |-> <<"disconnected">>] }
TimeoutError == [name |-> "Error", message |-> <<"COMMAND_TIMEOUT">>]
BusyError == [name |-> "Error", message |-> <<"BUSY">>]

\* The calls the caller may make and the responses the device may send:
\* one call with every response, or overlapping calls with a few responses.
CallIds(sc) == IF sc = "single" THEN {1} ELSE 1 .. MaxCalls
Responses(sc) ==
  IF sc = "single"
  THEN UNION { [1 .. n -> RespBytes] : n \in 0 .. MaxRespLen }
  ELSE { <<1, 0, 0>>, <<2, 0, 0>>, <<>> }
MethodsOf(sc) == IF sc = "single" THEN Methods ELSE {"turnOn", "turnOff"}
ErrorsOf(sc) ==
  IF sc = "single" THEN TransportErrors
  ELSE { [name |-> "Error", message |-> <<"write failed">>] }

Pending == [s |-> "pending"]
Fulfilled(v) == [s |-> "fulfilled", v |-> v]
Rejected(e) == [s |-> "rejected", v |-> e]

IdleCall ==
  [req |-> <<>>,            \* req_buf, line 110
   cmdCalls |-> 0,          \* the number of calls of this._command, line 111
   written |-> FALSE,       \* the session wrote the command to the device
   cmd |-> [s |-> "none"],  \* the promise this._command returned
   thenP |-> [s |-> "none"],\* the promise then() returned
   caught |-> FALSE,        \* the catch() callback ran
   settles |-> <<>>,        \* the calls of resolve and reject, in order
   answeredBy |-> 0]        \* the exchange whose notification it was given

\* Mutant: the session writes every command at once.
commandAdmitAlways(c) == {"write"}

\* What the session does with a command: write it when it is idle, else
\* queue it or refuse it.
commandAdmit(c) == IF inflight = 0 THEN {"write"} ELSE {"queue", "reject"}

\* Mutant: a notification goes to whichever exchange is waiting.
notifyTargetAnyWaiting(x) == inflight

\* The exchange a notification of exchange x is delivered to (0: dropped).
notifyTarget(x) == IF inflight = x THEN x ELSE 0

\* The exchange that follows the one that has just ended.
nextExchange == IF queue = <<>> THEN 0 ELSE Head(queue)

SessionInit ==
  /\ scope \in {"single", "race"}
  /\ calls = [c \in 1 .. MaxCalls |-> IdleCall]
  /\ inflight = 0 /\ queue = <<>> /\ air = {}
  /\ DecodeIdle /\ CheckIdle

\* press(), turnOn(), ...: _operateBot builds req_buf and calls _command
\* once (lines 109-111); the session admits the command.
Operate(c, m) ==
  /\ c \in CallIds(scope) /\ m \in MethodsOf(scope)
  /\ calls[c].cmd.s = "none"
  /\ \E how \in commandAdmit(c) :
       LET called == [calls[c] EXCEPT !.req = CommandBytes(m),
                                      !.cmdCalls = @ + 1,
                                      !.cmd = Pending,
                                      !.thenP = Pending]
       IN CASE how = "write" ->
                 /\ calls' = [calls EXCEPT ![c] = [called EXCEPT !.written = TRUE]]
                 /\ inflight' = c
                 /\ air' = air \cup {c}
                 /\ queue' = queue
            [] how = "queue" ->
                 /\ calls' = [calls EXCEPT ![c] = called]
                 /\ queue' = Append(queue, c)
                 /\ UNCHANGED <<inflight, air>>
            [] how = "reject" ->
                 /\ calls' = [calls EXCEPT ![c] = [called EXCEPT !.cmd = Rejected(BusyError)]]
                 /\ UNCHANGED <<inflight, queue, air>>
  /\ UNCHANGED <<scope, decodeVars, checkVars>>

\* The notification of exchange x arrives with the bytes b.
Notify(x, b) ==
  /\ x \in air /\ b \in Responses(scope)
  /\ LET t == notifyTarget(x)
     IN IF t = 0
        THEN /\ air' = air \ {x}
             /\ UNCHANGED <<calls, inflight, queue>>
        ELSE /\ calls[t].cmd.s = "pending"
             /\ LET n == nextExchange
                IN /\ inflight' = n
                   /\ queue' = IF queue = <<>> THEN <<>> ELSE Tail(queue)
                   /\ calls' = [c \in DOMAIN calls |->
                        IF c = t THEN [calls[c] EXCEPT !.cmd = Fulfilled(b),
                                                       !.answeredBy = x]
                        ELSE IF c = n THEN [calls[c] EXCEPT !.written = TRUE]
                        ELSE calls[c]]
                   /\ air' = (air \ {x}) \cup (IF n = 0 THEN {} ELSE {n})
  /\ UNCHANGED <<scope, decodeVars, checkVars>>

\* The transport fails the exchange in flight with the error e.
TransportFail(e) ==
  /\ inflight # 0 /\ e \in ErrorsOf(scope)
  /\ calls[inflight].cmd.s = "pending"
  /\ LET n == nextExchange
         x == inflight
     IN /\ inflight' = n
        /\ queue' = IF queue = <<>> THEN <<>> ELSE Tail(queue)
        /\ calls' = [c \in DOMAIN calls |->
             IF c = x THEN [calls[c] EXCEPT !.cmd = Rejected(e)]
             ELSE IF c = n THEN [calls[c] EXCEPT !.written = TRUE]
             ELSE calls[c]]
        /\ air' = (air \ {x}) \cup (IF n = 0 THEN {} ELSE {n})
  /\ UNCHANGED <<scope, decodeVars, checkVars>>

\* No notification came in time for the exchange in flight.
Timeout(x) ==
  /\ inflight = x /\ x # 0
  /\ calls[x].cmd.s = "pending"
  /\ LET n == nextExchange
     IN /\ inflight' = n
        /\ queue' = IF queue = <<>> THEN <<>> ELSE Tail(queue)
        /\ calls' = [c \in DOMAIN calls |->
             IF c = x THEN [calls[c] EXCEPT !.cmd = Rejected(TimeoutError)]
             ELSE IF c = n THEN [calls[c] EXCEPT !.written = TRUE]
             ELSE calls[c]]
        /\ air' = air \cup (IF n = 0 THEN {} ELSE {n})
  /\ UNCHANGED <<scope, decodeVars, checkVars>>

\* The then() callback of call c runs on the response (lines 112-123).
Then(c) ==
  /\ calls[c].cmd.s = "fulfilled" /\ calls[c].thenP.s = "pending"
  /\ LET r == ThenHandler(calls[c].cmd.v)
     IN calls' = [calls EXCEPT
          ![c].settles = @ \o r.settle,
          ![c].thenP = IF r.thrown = <<>> THEN Fulfilled(<<>>)
                       ELSE Rejected(r.thrown[1])]
  /\ UNCHANGED <<scope, inflight, queue, air, decodeVars, checkVars>>

\* The catch() callback of call c runs on the rejection of _command or on
\* what the then() callback threw (lines 124-126).
Catch(c) ==
  /\ ~calls[c].caught
  /\ calls[c].cmd.s = "rejected" \/ calls[c].thenP.s = "rejected"
  /\ LET e == IF calls[c].cmd.s = "rejected" THEN calls[c].cmd.v
              ELSE calls[c].thenP.v
     IN calls' = [calls EXCEPT ![c].settles = @ \o CatchHandler(e),
                               ![c].caught = TRUE]
  /\ UNCHANGED <<scope, inflight, queue, air, decodeVars, checkVars>>

SessionNext ==
  \/ \E c \in 1 .. MaxCalls : \E m \in Methods : Operate(c, m)
  \/ \E x \in 1 .. MaxCalls : \E b \in Responses(scope) : Notify(x, b)
  \/ \E e \in TransportErrors : TransportFail(e)
  \/ \E x \in 1 .. MaxCalls : Timeout(x)
  \/ \E c \in 1 .. MaxCalls : Then(c)
  \/ \E c \in 1 .. MaxCalls : Catch(c)

SessionSpec == SessionInit /\ [][SessionNext]_vars

\* The event loop runs every callback that is ready, and the session's
\* timeout ends every exchange that is still waiting.
SessionLive ==
  /\ SessionSpec
  /\ \A c \in 1 .. MaxCalls :
       WF_vars(Then(c)) /\ WF_vars(Catch(c)) /\ WF_vars(Timeout(c))

(***************************************************************************)
(* ParameterChecker (part_000): JavaScript values.                         *)
(*                                                                         *)
(* A number n/2 is Num(n): the model counts in halves, so that 1.5 is a    *)
(* value and value % 1 is n % 2.  A string is the sequence of its UTF-16   *)
(* code units, which is what String.length counts.  An object is a function*)
(* from its keys to their values; a key it lacks reads as undefined.       *)
(***************************************************************************)
NullV == [t |-> "null"]
Num(n) == [t |-> "number", n |-> n]
Bool(b) == [t |-> "boolean", b |-> b]
Str(s) == [t |-> "string", s |-> s]
Arr(a) == [t |-> "array", a |-> a]
Obj(o) == [t |-> "object", o |-> o]
RegExpV(k) == [t |-> "regexp", k |-> k]

\* typeof value
typeOf(v) ==
  IF v.t \in {"undefined", "number", "boolean", "string"} THEN v.t ELSE "object"

\* !value is false
Truthy(v) ==
  CASE v.t = "undefined" -> FALSE
    [] v.t = "null" -> FALSE
    [] v.t = "boolean" -> v.b
    [] v.t = "number" -> v.n # 0
    [] v.t = "string" -> v.s # <<>>
    [] OTHER -> TRUE

\* Lines 36-38.
isSpecified(v) == v # Undefined

\* obj[name]
Get(o, name) == IF name \in DOMAIN o.o THEN o.o[name] ELSE Undefined

\* The bytes Buffer.from(value, 'utf8') holds: one for "a", two for "é",
\* four for a surrogate pair, three (U+FFFD) for a surrogate on its own.
RECURSIVE utf8Length(_)
utf8Length(s) ==
  IF s = <<>> THEN 0
  ELSE CASE Head(s) = "a" -> 1 + utf8Length(Tail(s))
         [] Head(s) = "é" -> 2 + utf8Length(Tail(s))
         [] Head(s) = "HI" ->
              IF Len(s) > 1 /\ s[2] = "LO"
              THEN 4 + utf8Length(Tail(Tail(s)))
              ELSE 3 + utf8Length(Tail(s))
         [] OTHER -> 3 + utf8Length(Tail(s))

\* rule.pattern.test(value) for the patterns /^a/ and /a$/.
patternTest(k, s) ==
  CASE k = "^a" -> s # <<>> /\ s[1] = "a"
    [] k = "a$" -> s # <<>> /\ s[Len(s)] = "a"

\* rule.enum.indexOf(value) === -1: membership by strict equality.
notInEnum(e, v) == \A i \in DOMAIN e.a : e.a[i] # v

\* A number as text, and JSON.stringify of an enum.
numText(n) ==
  IF n % 2 = 0 THEN ToString(n \div 2)
  ELSE IF n = -1 THEN "-0.5"
  ELSE ToString((n - 1) \div 2 + (IF n < 0 THEN 1 ELSE 0)) \o ".5"
RECURSIVE jsonItems(_)
jsonItems(a) ==
  IF a = <<>> THEN <<>>
  ELSE (IF Head(a).t = "number" THEN <<numText(Head(a).n)>>
        ELSE <<"\"">> \o Head(a).s \o <<"\"">>)
       \o (IF Len(a) > 1 THEN <<",">> ELSE <<>>) \o jsonItems(Tail(a))
jsonStringify(e) == <<"[">> \o jsonItems(e.a) \o <<"]">>

\* A rule: every key of the Rule type (lines 5-14), undefined when absent.
EmptyRule ==
  [required |-> Undefined, min |-> Undefined, max |-> Undefined,
   minBytes |-> Undefined, maxBytes |-> Undefined, pattern |-> Undefined,
   enum |-> Undefined, type |-> Undefined]

\* What a checker leaves: its return value and ParameterChecker.error.
\* A message is the sequence of its pieces; its backquotes are written as
\* apostrophes.
Pass(err) == [result |-> TRUE, error |-> err]
Fail(code, message) ==
  [result |-> FALSE, error |-> [code |-> code, message |-> message]]

\* Mutant: the minimum is exclusive.
underflowsInclusive(x, min) == x <= min

\* value < rule.min (lines 191, 378, 449, 478), both sides in halves.
underflows(x, min) == x < min

\* value > rule.max (lines 205, 392, 463, 495).
overflows(x, max) == x > max

\* Array.isArray(rule.enum) && rule.enum.length > 0 (lines 218, 519).
enumDeclared(rule) == rule.enum.t = "array" /\ Len(rule.enum.a) > 0

\* Lines 175-234.  The first statement, this.error, changes nothing.
isFloat(value, rule, name, err) ==
  IF ~Truthy(rule.required) /\ ~isSpecified(value) THEN Pass(err)
  ELSE IF typeOf(value) # "number"
  THEN Fail("TYPE_INVALID",
            <<"The '", name, "' must be a number (integer or float).">>)
  ELSE IF typeOf(rule.min) = "number" /\ underflows(value.n, rule.min.n)
  THEN Fail("VALUE_UNDERFLOW",
            <<"The '", name, "' must be grater than or equal to ",
              numText(rule.min.n), ".">>)
  ELSE IF typeOf(rule.max) = "number" /\ overflows(value.n, rule.max.n)
  THEN Fail("VALUE_OVERFLOW",
            <<"The '", name, "' must be less than or equal to ",
              numText(rule.max.n), ".">>)
  ELSE IF enumDeclared(rule) /\ notInEnum(rule.enum, value)
  THEN Fail("ENUM_UNMATCH",
            <<"The '", name, "' must be any one of ">>
            \o jsonStringify(rule.enum) \o <<".">>)
  ELSE Pass(err)

\* Lines 257-277.  this.error = null; isFloat is called without the name.
isInteger(value, rule, name, err) ==
  IF ~Truthy(rule.required) /\ ~isSpecified(value) THEN Pass(NullV)
  ELSE LET f == isFloat(value, rule, "value", NullV)
       IN IF f.result
          THEN IF value.n % 2 = 0 THEN Pass(f.error)
               ELSE Fail("TYPE_INVALID", <<"The '", name, "' must be an integer.">>)
          ELSE f

\* Lines 294-309.
isBoolean(value, rule, name, err) ==
  IF ~Truthy(rule.required) /\ ~isSpecified(value) THEN Pass(NullV)
  ELSE IF typeOf(value) # "boolean"
  THEN Fail("TYPE_INVALID", <<"The '", name, "' must be boolean.">>)
  ELSE Pass(NullV)

\* Lines 326-340.
isObject(value, rule, name, err) ==
  IF ~Truthy(rule.required) /\ ~isSpecified(value) THEN Pass(NullV)
  ELSE IF typeOf(value) # "object" \/ value = NullV \/ value.t = "array"
  THEN Fail("TYPE_INVALID", <<"The '", name, "' must be an object.">>)
  ELSE Pass(NullV)

\* Lines 362-407.  The lengths are whole numbers, the bounds are in halves.
isArray(value, rule, name, err) ==
  IF ~Truthy(rule.required) /\ ~isSpecified(value) THEN Pass(NullV)
  ELSE IF value.t # "array"
  THEN Fail("TYPE_INVALID", <<"The value must be an array.">>)
  ELSE IF typeOf(rule.min) = "number" /\ underflows(2 * Len(value.a), rule.min.n)
  THEN Fail("LENGTH_UNDERFLOW",
            <<"The number of characters in the '", name,
              "' must be grater than or equal to ", numText(rule.min.n), ".">>)
  ELSE IF typeOf(rule.max) = "number" /\ overflows(2 * Len(value.a), rule.max.n)
  THEN Fail("LENGTH_OVERFLOW",
            <<"The number of characters in the '", name,
              "' must be less than or equal to ", numText(rule.max.n), ".">>)
  ELSE Pass(NullV)

\* Lines 433-535.
isString(value, rule, name, err) ==
  IF ~Truthy(rule.required) /\ ~isSpecified(value) THEN Pass(NullV)
  ELSE IF typeOf(value) # "string"
  THEN Fail("TYPE_INVALID", <<"The value must be a string.">>)
  ELSE IF typeOf(rule.min) = "number" /\ underflows(2 * Len(value.s), rule.min.n)
  THEN Fail("LENGTH_UNDERFLOW",
            <<"The number of characters in the '", name,
              "' must be grater than or equal to ", numText(rule.min.n), ".">>)
  ELSE IF typeOf(rule.max) = "number" /\ overflows(2 * Len(value.s), rule.max.n)
  THEN Fail("LENGTH_OVERFLOW",
            <<"The number of characters in the '", name,
              "' must be less than or equal to ", numText(rule.max.n), ".">>)
  ELSE IF typeOf(rule.minBytes) = "number"
          /\ underflows(2 * utf8Length(value.s), rule.minBytes.n)
  THEN Fail("LENGTH_UNDERFLOW",
            <<"The byte length of the '", name, "' (",
              ToString(utf8Length(value.s)),
              " bytes) must be grater than or equal to ",
              numText(rule.minBytes.n), " bytes.">>)
  ELSE IF typeOf(rule.maxBytes) = "number"
          /\ overflows(2 * utf8Length(value.s), rule.maxBytes.n)
  THEN Fail("LENGTH_OVERFLOW",
            <<"The byte length of the '", name, "' (",
              ToString(utf8Length(value.s)),
              " bytes) must be less than or equal to ",
              numText(rule.maxBytes.n), " bytes.">>)
  ELSE IF rule.pattern.t = "regexp" /\ ~patternTest(rule.pattern.k, value.s)
  THEN Fail("PATTERN_UNMATCH",
            <<"The '", name, "' does not conform with the pattern.">>)
  ELSE IF enumDeclared(rule) /\ notInEnum(rule.enum, value)
  THEN Fail("ENUM_UNMATCH",
            <<"The '", name, "' must be any one of ">>
            \o jsonStringify(rule.enum) \o <<".">>)
  ELSE Pass(NullV)

(***************************************************************************)
(* ParameterChecker.check (lines 73-152).  The rules are the sequence of   *)
(* their entries as the caller declared them; the loop goes through them   *)
(* in the order Object.keys gives (line 98).                               *)
(***************************************************************************)
\* The names that are array indices (canonical numeric strings), ascending.
IndexNames == <<"0", "1">>

\* The index a name is, or -1 for a name that is none.
arrayIndex(name) ==
  IF \E k \in DOMAIN IndexNames : IndexNames[k] = name
  THEN (CHOOSE k \in DOMAIN IndexNames : IndexNames[k] = name) - 1
  ELSE -1

\* Mutant: the keys come in the order of declaration, whatever they are.
objectKeysAsDeclared(rules) == rules

\* Line 98, Object.keys(rules), each key with its rules[name] (line 103):
\* the keys that are array indices first, in ascending numeric order, then
\* the other keys in the order of declaration.
objectKeys(rules) ==
  LET idx(i) == arrayIndex(rules[i].name)
      before(j, i) ==
        IF idx(j) >= 0 /\ idx(i) >= 0 THEN idx(j) < idx(i)
        ELSE IF idx(j) >= 0 THEN TRUE
        ELSE IF idx(i) >= 0 THEN FALSE
        ELSE j < i
      rank(i) == 1 + Cardinality({ j \in DOMAIN rules : before(j, i) })
  IN [k \in DOMAIN rules |-> rules[CHOOSE i \in DOMAIN rules : rank(i) = k]]

MissingArgument ==
  [code |-> "MISSING_REQUIRED", message |-> <<"The first argument is missing.">>]

\* Lines 103-107: a rule that is missing is the empty rule.
ruleOf(r) == IF r = NullV THEN EmptyRule ELSE r

typeIs(rule, name) == rule.type = Str(<<name>>)
typeText(ty) == IF ty.t = "string" THEN ty.s ELSE <<"undefined">>

\* Lines 121-143: the checker of the rule's type, or TYPE_UNKNOWN.
dispatch(v, rule, name, err) ==
  IF typeIs(rule, "float") THEN isFloat(v, rule, name, err)
  ELSE IF typeIs(rule, "integer") THEN isInteger(v, rule, name, err)
  ELSE IF typeIs(rule, "boolean") THEN isBoolean(v, rule, name, err)
  ELSE IF typeIs(rule, "array") THEN isArray(v, rule, name, err)
  ELSE IF typeIs(rule, "object") THEN isObject(v, rule, name, err)
  ELSE IF typeIs(rule, "string") THEN isString(v, rule, name, err)
  ELSE Fail("TYPE_UNKNOWN",
            <<"The rule specified for the '", name,
              "' includes an unknown type: ">> \o typeText(rule.type))

\* Lines 111-114: the error of a required field that is absent; the loop
\* breaks on line 115, before line 146 would add the name.
missingField(name) ==
  [code |-> "MISSING_REQUIRED", message |-> <<"The '", name, "' is required.">>]

\* Line 146: this.error.name = name.
withName(e, name) == [code |-> e.code, message |-> e.message, name |-> name]

\* Lines 100-151: the loop over the declared fields from the i-th on.  The
\* trace lists the fields the loop looked at and what it did with each.
RECURSIVE checkFields(_, _, _, _, _)
checkFields(obj, rules, i, err, tr) ==
  IF i > Len(rules) THEN [result |-> TRUE, error |-> err, trace |-> tr]
  ELSE LET name == rules[i].name
           v == Get(obj, name)
           rule == ruleOf(rules[i].rule)
       IN IF ~isSpecified(v)
          THEN IF Truthy(rule.required)
               THEN [result |-> FALSE, error |-> missingField(name),
                     trace |-> Append(tr, <<name, "missing">>)]
               ELSE checkFields(obj, rules, i + 1, err,
                                Append(tr, <<name, "skipped">>))
          ELSE LET r == dispatch(v, rule, name, err)
               IN IF ~r.result
                  THEN [result |-> FALSE, error |-> withName(r.error, name),
                        trace |-> Append(tr, <<name, "rejected">>)]
                  ELSE checkFields(obj, rules, i + 1, r.error,
                                   Append(tr, <<name, "accepted">>))

\* Line 84: !obj, the test for an absent argument that is not required.
absentWhenOptional(obj) == ~Truthy(obj)

\* Lines 73-152.  The first statement, this.error, changes nothing.
check(obj, rules, required, err) ==
  IF Truthy(required) /\ ~isSpecified(obj)
  THEN [result |-> FALSE, error |-> MissingArgument, trace |-> <<>>]
  ELSE IF ~Truthy(required) /\ absentWhenOptional(obj)
  THEN [result |-> TRUE, error |-> err, trace |-> <<>>]
  ELSE LET o == isObject(obj, EmptyRule, "value", err)
       IN IF ~o.result
          THEN [result |-> FALSE, error |-> MissingArgument, trace |-> <<>>]
          ELSE checkFields(obj, objectKeys(rules), 1, o.error, <<>>)

(***************************************************************************)
(* The calls the checker is run on.                                        *)
(***************************************************************************)
MaxNum == 2       \* numbers up to MaxNum + 0.5, numeric bounds up to MaxNum
MaxArrLen == 2    \* arrays and their length bounds
MaxStrLen == 2    \* strings over "a", "é" and their length bounds

NonNumeric == Str(<<"a">>)
Flags == {Undefined, Bool(TRUE)}

NumValues == { Num(h) : h \in -1 .. 2 * MaxNum + 1 }
NumBounds == {Undefined, NonNumeric} \cup { Num(h) : h \in 0 .. 2 * MaxNum }
NumEnums == {Undefined, Arr(<<>>), Arr(<<Num(2), Num(4)>>)}
NumRules ==
  { [EmptyRule EXCEPT !.min = lo, !.max = hi, !.enum = en, !.required = rq] :
      lo \in NumBounds, hi \in NumBounds, en \in NumEnums, rq \in Flags }
ArrValues == { Arr([i \in 1 .. n |-> Num(2)]) : n \in 0 .. MaxArrLen }
LenBounds(max) == {Undefined, NonNumeric} \cup { Num(2 * k) : k \in 0 .. max }
ArrRules ==
  { [EmptyRule EXCEPT !.min = lo, !.max = hi, !.required = rq] :
      lo \in LenBounds(MaxArrLen), hi \in LenBounds(MaxArrLen), rq \in Flags }
StrValues ==
  { Str(s) : s \in UNION { [1 .. n -> {"a", "é"}] : n \in 0 .. MaxStrLen } }
  \cup { Str(<<"HI", "LO">>), Str(<<"HI">>), Str(<<"a", "LO">>) }
ByteBounds == {Undefined, NonNumeric, Num(4), Num(8)}
Patterns == {Undefined, Str(<<"a">>), RegExpV("^a"), RegExpV("a$")}
StrEnums == {Undefined, Arr(<<>>), Arr(<<Str(<<"a">>), Str(<<"é", "a">>)>>)}
PlainValues ==
  {Undefined, NullV, Bool(TRUE), Bool(FALSE), Num(0), Str(<<>>),
   Arr(<<>>), Obj(<<>>), Obj([age |-> Num(2)])}

FieldNames == {"age", "name"}
FieldValues ==
  {Num(2), Num(3), Str(<<"a">>), Bool(TRUE), Arr(<<>>), Obj(<<>>)}
Objects ==
  { Obj(f) : f \in UNION { [S -> FieldValues] : S \in SUBSET FieldNames } }
NonObjects ==
  {Undefined, NullV, Num(0), Num(2), Str(<<>>), Str(<<"a">>),
   Bool(FALSE), Bool(TRUE), Arr(<<>>), Arr(<<Num(2)>>)}
TypeNames ==
  {"float", "integer", "boolean", "array", "object", "string", "date"}
FieldRules ==
  { [EmptyRule EXCEPT !.type = ty, !.required = rq] :
      ty \in { Str(<<n>>) : n \in TypeNames } \cup {Undefined}, rq \in Flags }
  \cup { [EmptyRule EXCEPT !.type = Str(<<"integer">>), !.min = Num(4)], NullV }
RuleSets ==
  {<<>>}
  \cup { <<[name |-> n, rule |-> r]>> : n \in FieldNames, r \in FieldRules }
  \cup { <<[name |-> nm[1], rule |-> r], [name |-> nm[2], rule |-> q]>> :
           nm \in { p \in FieldNames \X FieldNames : p[1] # p[2] },
           r \in FieldRules, q \in FieldRules }

\* Rule sets and objects whose fields include array indices.
IntegerAge == [EmptyRule EXCEPT !.type = Str(<<"integer">>), !.required = Bool(TRUE)]
FloatAge == [EmptyRule EXCEPT !.type = Str(<<"float">>)]
DateAge == [EmptyRule EXCEPT !.type = Str(<<"date">>)]
StringName == [EmptyRule EXCEPT !.type = Str(<<"string">>)]
KeyNames == {"0", "1", "name"}
KeyRules == {IntegerAge, FloatAge, DateAge, StringName}
KeyValues == {Num(2), Num(3), Str(<<"a">>)}
KeyObjects ==
  { Obj(f) : f \in UNION { [S -> KeyValues] : S \in SUBSET KeyNames } }
KeyRuleSets ==
  { [i \in 1 .. 2 |-> [name |-> nm[i], rule |-> rs[i]]] :
      nm \in { p \in KeyNames \X KeyNames : p[1] # p[2] },
      rs \in KeyRules \X KeyRules }
  \cup { [i \in 1 .. 3 |-> [name |-> nm[i], rule |-> rs[i]]] :
           nm \in { p \in KeyNames \X KeyNames \X KeyNames :
                      p[1] # p[2] /\ p[1] # p[3] /\ p[2] # p[3] },
           rs \in KeyRules \X KeyRules \X KeyRules }

Returned(b) == [is |-> "returned", v |-> b]

TypeCall(f, v, r, n) == [fn |-> f, value |-> v, rule |-> r, name |-> n]

\* The call to come, drawn from the values and rules above.
\* ParameterChecker.error is declared on line 19 and starts undefined.
CheckInit ==
  /\ \/ \E f \in {"isFloat", "isInteger"} :
        \E v \in NumValues \cup {Undefined, NullV, Str(<<"a">>)} :
        \E r \in NumRules : call = TypeCall(f, v, r, "level")
     \/ \E v \in ArrValues \cup {Undefined, NullV, Obj(<<>>)} :
        \E r \in ArrRules : call = TypeCall("isArray", v, r, "list")
     \/ \E v \in StrValues :
        \E lo \in LenBounds(MaxStrLen), hi \in LenBounds(MaxStrLen) :
        \E lob \in ByteBounds, hib \in ByteBounds :
        \E pt \in Patterns, en \in StrEnums :
          call = TypeCall("isString", v,
                          [EmptyRule EXCEPT !.min = lo, !.max = hi,
                                            !.minBytes = lob, !.maxBytes = hib,
                                            !.pattern = pt, !.enum = en],
                          "greeting")
     \/ \E v \in {Undefined, NullV, Num(2)} : \E rq \in Flags :
          call = TypeCall("isString", v,
                          [EmptyRule EXCEPT !.required = rq, !.min = Num(2)],
                          "greeting")
     \/ \E f \in {"isBoolean", "isObject"} :
        \E v \in PlainValues : \E rq \in Flags :
          call = TypeCall(f, v, [EmptyRule EXCEPT !.required = rq], "flag")
     \/ \E o \in Objects \cup NonObjects : \E rs \in RuleSets :
        \E rq \in {Bool(FALSE), Bool(TRUE)} :
          call = [fn |-> "check", obj |-> o, rules |-> rs, required |-> rq]
     \/ \E o \in KeyObjects : \E rs \in KeyRuleSets :
        \E rq \in {Bool(FALSE), Bool(TRUE)} :
          call = [fn |-> "check", obj |-> o, rules |-> rs, required |-> rq]
  /\ result = NotRun /\ error = Undefined /\ trace = <<>>
  /\ DecodeIdle /\ SessionIdle

\* One of the type checkers is called on its own.
Checker(fn, r) ==
  /\ call.fn = fn /\ result = NotRun
  /\ result' = Returned(r.result)
  /\ error' = r.error
  /\ UNCHANGED <<call, trace, decodeVars, sessionVars>>

IsFloat == Checker("isFloat", isFloat(call.value, call.rule, call.name, error))
IsInteger == Checker("isInteger", isInteger(call.value, call.rule, call.name, error))
IsBoolean == Checker("isBoolean", isBoolean(call.value, call.rule, call.name, error))
IsObject == Checker("isObject", isObject(call.value, call.rule, call.name, error))
IsArray == Checker("isArray", isArray(call.value, call.rule, call.name, error))
IsString == Checker("isString", isString(call.value, call.rule, call.name, error))

Check ==
  /\ call.fn = "check" /\ result = NotRun
  /\ LET r == check(call.obj, call.rules, call.required, error)
     IN /\ result' = Returned(r.result)
        /\ error' = r.error
        /\ trace' = r.trace
  /\ UNCHANGED <<call, decodeVars, sessionVars>>

CheckNext ==
  \/ Check
  \/ IsFloat
  \/ IsInteger
  \/ IsBoolean
  \/ IsObject
  \/ IsArray
  \/ IsString

CheckSpec == CheckInit /\ [][CheckNext]_vars

(***************************************************************************)
(* Calls one after another.  ParameterChecker.error is a static property   *)
(* (line 19): every call reads and writes the same one, so what a call     *)
(* leaves is what the next call starts from.  The calls are synchronous:   *)
(* one runs to its return before the next starts.                          *)
(***************************************************************************)
HistoryCalls ==
  { TypeCall(f, v, r, "level") :
      f \in {"isFloat", "isInteger"},
      v \in {Undefined, Num(2), Num(3), Num(6), Str(<<"a">>)},
      r \in {EmptyRule, [EmptyRule EXCEPT !.max = Num(4)],
             [EmptyRule EXCEPT !.required = Bool(TRUE)]} }
  \cup { TypeCall(f, v, EmptyRule, "flag") :
           f \in {"isBoolean", "isObject"},
           v \in {Undefined, Bool(TRUE), Num(0), NullV, Obj(<<>>)} }
  \cup { TypeCall("isArray", v, [EmptyRule EXCEPT !.max = Num(2)], "list") :
           v \in {Arr(<<>>), Arr(<<Num(2), Num(2)>>), Num(2)} }
  \cup { TypeCall("isString", v, [EmptyRule EXCEPT !.max = Num(2)], "greeting") :
           v \in {Str(<<"a">>), Str(<<"a", "a">>), Num(2)} }
  \cup { [fn |-> "check", obj |-> o, rules |-> rs, required |-> rq] :
           o \in {Undefined, NullV, Num(0), Obj(<<>>),
                  Obj([age |-> Num(2)]), Obj([age |-> Num(3)])},
           rs \in {<<>>} \cup { <<[name |-> "age", rule |-> r]>> :
                                  r \in {IntegerAge, FloatAge, DateAge} },
           rq \in {Bool(FALSE), Bool(TRUE)} }

HistoryInit == CheckIdle /\ DecodeIdle /\ SessionIdle

\* A type checker is called, after whatever was called before.
NextChecker(c, r) ==
  /\ call' = c
  /\ result' = Returned(r.result)
  /\ error' = r.error
  /\ trace' = <<>>
  /\ UNCHANGED <<decodeVars, sessionVars>>

ThenIsFloat ==
  \E c \in HistoryCalls :
    c.fn = "isFloat" /\ NextChecker(c, isFloat(c.value, c.rule, c.name, error))
ThenIsInteger ==
  \E c \in HistoryCalls :
    c.fn = "isInteger" /\ NextChecker(c, isInteger(c.value, c.rule, c.name, error))
ThenIsBoolean ==
  \E c \in HistoryCalls :
    c.fn = "isBoolean" /\ NextChecker(c, isBoolean(c.value, c.rule, c.name, error))
ThenIsObject ==
  \E c \in HistoryCalls :
    c.fn = "isObject" /\ NextChecker(c, isObject(c.value, c.rule, c.name, error))
ThenIsArray ==
  \E c \in HistoryCalls :
    c.fn = "isArray" /\ NextChecker(c, isArray(c.value, c.rule, c.name, error))
ThenIsString ==
  \E c \in HistoryCalls :
    c.fn = "isString" /\ NextChecker(c, isString(c.value, c.rule, c.name, error))

ThenCheck ==
  \E c \in HistoryCalls :
    /\ c.fn = "check"
    /\ LET r == check(c.obj, c.rules, c.required, error)
       IN /\ call' = c
          /\ result' = Returned(r.result)
          /\ error' = r.error
          /\ trace' = r.trace
    /\ UNCHANGED <<decodeVars, sessionVars>>

HistoryNext ==
  \/ ThenCheck
  \/ ThenIsFloat
  \/ ThenIsInteger
  \/ ThenIsBoolean
  \/ ThenIsObject
  \/ ThenIsArray
  \/ ThenIsString

HistorySpec == HistoryInit /\ [][HistoryNext]_vars

(***************************************************************************)
(* Claims about _operateBot, checked under SessionSpec and SessionLive.    *)
(***************************************************************************)
CallRange == 1 .. MaxCalls
Ended(c) == calls[c].settles # <<>>
Accepted(res) == Len(res) = 3 /\ res[1] \in {1, 5}
DeviceError(res) ==
  [name |-> "Error", message |-> <<DeviceErrorPrefix>> \o toHex(res)]

\* C1 (as claimed): a call whose exchange delivered a response ends in
\* success exactly when the response has length 3 and first byte 0x01 or
\* 0x05, and for every other response, of any length, in the failure
\* "The device returned an error: 0x<hex of the response>".
C1_OutcomeFromResponse ==
  \A c \in CallRange :
    (calls[c].cmd.s = "fulfilled" /\ Ended(c)) =>
      calls[c].settles =
        IF Accepted(calls[c].cmd.v) THEN <<Resolve>>
        ELSE <<Reject(DeviceError(calls[c].cmd.v))>>

\* C2: no call ever sees more than one call of resolve or reject, and every
\* call that was made ends with exactly one, whether the transport answers,
\* fails or stays silent.
C2_ExactlyOneOutcome ==
  /\ [](\A c \in CallRange : Len(calls[c].settles) <= 1)
  /\ \A c \in CallRange :
       (calls[c].cmdCalls > 0) ~> (Len(calls[c].settles) = 1)

\* A call whose exchange stayed silent has ended with the timeout.
C2_Witness ==
  \E c \in CallRange :
    /\ calls[c].answeredBy = 0
    /\ calls[c].settles = <<Reject(TimeoutError)>>

\* C3: at most one written command is waiting for its notification; a call
\* made meanwhile is in the queue or was refused; and a call is only ever
\* given the notification of its own exchange.
C3_OneExchangeInFlight ==
  /\ Cardinality({c \in CallRange :
                    calls[c].written /\ calls[c].cmd.s = "pending"}) <= 1
  /\ \A c \in CallRange :
       /\ (calls[c].cmd.s = "pending" /\ calls[c].written) => inflight = c
       /\ (calls[c].cmd.s = "pending" /\ ~calls[c].written) =>
            (inflight # 0 /\ \E i \in DOMAIN queue : queue[i] = c)
       /\ calls[c].answeredBy \in {0, c}

\* A second call waits in the queue behind the exchange in flight, whose
\* predecessor's notification may still arrive.
C3_Witness ==
  /\ inflight # 0
  /\ \/ queue # <<>>
     \/ \E x \in air : x # inflight

\* C4: _command is called once per call, and when it fails, the call fails
\* with the error _command failed with, and with nothing else.
C4_TransportErrorUnchanged ==
  \A c \in CallRange :
    /\ calls[c].cmdCalls = (IF calls[c].req = <<>> THEN 0 ELSE 1)
    /\ (calls[c].cmd.s = "rejected" /\ calls[c].caught) =>
         calls[c].settles = <<Reject(calls[c].cmd.v)>>
    /\ (calls[c].cmd.s = "rejected" /\ ~calls[c].caught) =>
         calls[c].settles = <<>>

\* A call has failed with the transport's own error.
C4_Witness ==
  \E c \in CallRange :
    /\ calls[c].cmd.s = "rejected" /\ calls[c].cmd.v \in TransportErrors
    /\ calls[c].cmdCalls = 1
    /\ calls[c].settles = <<Reject(calls[c].cmd.v)>>

(***************************************************************************)
(* Claims about the decoder, checked under DecodeSpec.                     *)
(***************************************************************************)
Decoded == data # NotRun
Bit7(byte) == (byte \div 128) % 2 = 1
Low7(byte) == byte % 128

\* C5: for every 8-byte buffer the returned record has onState = bit 7 of
\* byte 1, autoMode = bit 7 of byte 4, percentage = the low 7 bits of byte 4
\* when autoMode is false and 0 when it is true; changing any of the bytes
\* 0, 2, 3, 5, 6, 7 leaves the record as it is.
C5_RecordFromBytes1And4 ==
  (Decoded /\ Len(buf) = 8) =>
    /\ data # Null
    /\ data.onState = Bit7(buf[2])
    /\ data.autoMode = Bit7(buf[5])
    /\ data.percentage = (IF Bit7(buf[5]) THEN 0 ELSE Low7(buf[5]))
    /\ \A off \in OtherOffsets : \A v \in FillBytes :
         parseServiceData([buf EXCEPT ![off + 1] = v], onlog).data = data

\* An 8-byte buffer with byte 4 = 0x96 (auto bit set, low bits 22) was decoded.
C5_Witness ==
  /\ Decoded /\ Len(buf) = 8 /\ data # Null
  /\ buf[5] = 150 /\ buf[2] = 128
  /\ data.autoMode /\ data.onState /\ data.percentage = 0

\* C6: a buffer whose length is not 8 yields null, and no byte of it was read.
C6_WrongLengthYieldsNull ==
  (Decoded /\ Len(buf) # 8) => (data = Null /\ reads = {})

\* A buffer longer than 8 bytes was refused.
C6_Witness == Decoded /\ Len(buf) > 8 /\ data = Null

\* C7 (as claimed): the percentage of every decoded record is in 0..100, and
\* the raw values 101..103 are reported in a field of their own.
C7_PercentageAtMost100 ==
  (Decoded /\ data # Null) =>
    /\ data.percentage \in 0 .. 100
    /\ (~Bit7(buf[5]) /\ Low7(buf[5]) \in 101 .. 103) =>
         DOMAIN data # {"model", "modelName", "onState", "autoMode", "percentage"}

\* C7 (amended): the percentage of every decoded record is in 0..127; with
\* autoMode false it is the low 7 bits of byte 4 as they are, so the raw
\* values 101..103 (quick gear 1/2/3) and every raw value up to 127 appear in
\* the percentage field, and the record has no field for a quick-gear mode.
C7_PercentageIsRawLow7 ==
  (Decoded /\ data # Null) =>
    /\ data.percentage \in 0 .. 127
    /\ DOMAIN data = {"model", "modelName", "onState", "autoMode", "percentage"}
    /\ ~data.autoMode => data.percentage = Low7(buf[5])

\* Byte 4 = 102 (quick gear 2, auto bit clear) was decoded to percentage 102.
C7_Witness ==
  /\ Decoded /\ data # Null
  /\ buf[5] = 102 /\ data.percentage = 102

(***************************************************************************)
(* Claims about ParameterChecker, checked under CheckSpec.                 *)
(***************************************************************************)
Ran == result # NotRun
BoundKeys == {"min", "max", "minBytes", "maxBytes", "pattern", "enum"}
Numeric(fn) == fn \in {"isFloat", "isInteger"}

\* The value is of the type the checker is for.
OfDeclaredType(c) ==
  CASE c.fn = "isFloat" -> c.value.t = "number"
    [] c.fn = "isInteger" -> c.value.t = "number" /\ c.value.n % 2 = 0
    [] c.fn = "isArray" -> c.value.t = "array"
    [] c.fn = "isString" -> c.value.t = "string"
    [] OTHER -> FALSE

\* What min and max bound, in halves: the number, the count of elements,
\* the count of characters.
Measure(c) ==
  CASE Numeric(c.fn) -> c.value.n
    [] c.fn = "isArray" -> 2 * Len(c.value.a)
    [] c.fn = "isString" -> 2 * Len(c.value.s)

\* The value breaks the bound the key k of the rule declares.  A key that is
\* absent or holds no number declares no bound; so, when emptyEnumBinds is
\* false, does an enum that is empty.
Violates(c, k, emptyEnumBinds) ==
  CASE k = "min" -> c.rule.min.t = "number" /\ Measure(c) < c.rule.min.n
    [] k = "max" -> c.rule.max.t = "number" /\ Measure(c) > c.rule.max.n
    [] k = "minBytes" ->
         /\ c.fn = "isString" /\ c.rule.minBytes.t = "number"
         /\ 2 * utf8Length(c.value.s) < c.rule.minBytes.n
    [] k = "maxBytes" ->
         /\ c.fn = "isString" /\ c.rule.maxBytes.t = "number"
         /\ 2 * utf8Length(c.value.s) > c.rule.maxBytes.n
    [] k = "pattern" ->
         /\ c.fn = "isString" /\ c.rule.pattern.t = "regexp"
         /\ ~patternTest(c.rule.pattern.k, c.value.s)
    [] k = "enum" ->
         /\ c.fn # "isArray" /\ c.rule.enum.t = "array"
         /\ emptyEnumBinds \/ c.rule.enum.a # <<>>
         /\ ~\E i \in DOMAIN c.rule.enum.a : c.rule.enum.a[i] = c.value

CodeOf(fn, k) ==
  CASE k = "min" -> IF Numeric(fn) THEN "VALUE_UNDERFLOW" ELSE "LENGTH_UNDERFLOW"
    [] k = "max" -> IF Numeric(fn) THEN "VALUE_OVERFLOW" ELSE "LENGTH_OVERFLOW"
    [] k = "minBytes" -> "LENGTH_UNDERFLOW"
    [] k = "maxBytes" -> "LENGTH_OVERFLOW"
    [] k = "pattern" -> "PATTERN_UNMATCH"
    [] k = "enum" -> "ENUM_UNMATCH"

BoundsDecide(emptyEnumBinds) ==
  (Ran /\ OfDeclaredType(call)) =>
    LET broken == { k \in BoundKeys : Violates(call, k, emptyEnumBinds) }
    IN /\ broken = {} => result = Returned(TRUE)
       /\ \A k \in BoundKeys :
            broken = {k} =>
              /\ result = Returned(FALSE)
              /\ error # Undefined /\ error # NullV
              /\ error.code = CodeOf(call.fn, k)

\* C8 (as claimed): a value of the declared type that breaks no declared
\* bound is accepted, and one that breaks exactly one is rejected with the
\* code of that bound; every enum that is declared is a bound.
C8_EveryDeclaredBoundDecides == BoundsDecide(TRUE)

\* C8 (amended): the same, where an enum that is an empty array declares no
\* bound, as an absent or non-numeric min, max, minBytes or maxBytes does.
C8_NonEmptyBoundsDecide == BoundsDecide(FALSE)

\* "éé" is 2 characters and 4 bytes: it meets max = 2 exactly and is
\* rejected for maxBytes = 2 alone, with LENGTH_OVERFLOW.
C8_Witness ==
  /\ Ran /\ call.fn = "isString"
  /\ call.value = Str(<<"é", "é">>)
  /\ call.rule.max = Num(4) /\ call.rule.maxBytes = Num(4)
  /\ { k \in BoundKeys : Violates(call, k, FALSE) } = {"maxBytes"}
  /\ result = Returned(FALSE) /\ error.code = "LENGTH_OVERFLOW"

ErrorCodes ==
  {"TYPE_INVALID", "VALUE_UNDERFLOW", "VALUE_OVERFLOW", "LENGTH_UNDERFLOW",
   "LENGTH_OVERFLOW", "PATTERN_UNMATCH", "ENUM_UNMATCH", "MISSING_REQUIRED",
   "TYPE_UNKNOWN"}

\* C9 (as claimed): when check returns false because of a declared field, the
\* error is an object that holds a code of the taxonomy and, as its name,
\* the name of that field.
C9_FieldErrorHasCodeAndName ==
  (Ran /\ call.fn = "check" /\ result = Returned(FALSE) /\ trace # <<>>) =>
    /\ error # Undefined /\ error # NullV
    /\ error.code \in ErrorCodes
    /\ "name" \in DOMAIN error
    /\ error.name = trace[Len(trace)][1]

IsStructuredObject(v) == v.t = "object"

\* C10 (as claimed): an absent argument fails with MISSING_REQUIRED when it
\* is required and succeeds when it is not; every argument that is present
\* and is no object is rejected before any field is looked at, whether the
\* argument is required or not.
C10_ArgumentItself ==
  (Ran /\ call.fn = "check") =>
    /\ (call.obj = Undefined /\ Truthy(call.required)) =>
         (result = Returned(FALSE) /\ error = MissingArgument)
    /\ (call.obj = Undefined /\ ~Truthy(call.required)) =>
         result = Returned(TRUE)
    /\ (call.obj # Undefined /\ ~IsStructuredObject(call.obj)) =>
         (result = Returned(FALSE) /\ trace = <<>>)

(***************************************************************************)
(* Claims about calls one after another, checked under HistorySpec.        *)
(***************************************************************************)
\* What the call c leaves in ParameterChecker.error when nothing was called
\* before it: the history that is this call alone.
AloneError(c) ==
  CASE c.fn = "check" -> check(c.obj, c.rules, c.required, Undefined).error
    [] c.fn = "isFloat" -> isFloat(c.value, c.rule, c.name, Undefined).error
    [] c.fn = "isInteger" -> isInteger(c.value, c.rule, c.name, Undefined).error
    [] c.fn = "isBoolean" -> isBoolean(c.value, c.rule, c.name, Undefined).error
    [] c.fn = "isObject" -> isObject(c.value, c.rule, c.name, Undefined).error
    [] c.fn = "isArray" -> isArray(c.value, c.rule, c.name, Undefined).error
    [] c.fn = "isString" -> isString(c.value, c.rule, c.name, Undefined).error

NoError == {Undefined, NullV}

\* The error detail a caller reads: undefined and null both say "no error".
Detail(e) == IF e \in NoError THEN NullV ELSE e

\* The calls that return without writing ParameterChecker.error: isFloat
\* when it accepts (lines 175-234 never reset it) and check when it returns
\* on line 85.
LeavesErrorAlone(c) ==
  \/ c.fn = "isFloat"
  \/ c.fn = "check" /\ ~Truthy(c.required) /\ ~Truthy(c.obj)

\* C11 (as claimed): after any sequence of calls, the error detail that can
\* be read after the last call is the one that call leaves when it is the
\* only call made, so that two histories ending in the same call show the
\* same error; and after a call that returned true there is no error to read.
C11_ErrorOfLastCallOnly ==
  Ran =>
    /\ Detail(error) = Detail(AloneError(call))
    /\ result = Returned(TRUE) => error \in NoError

\* The rest of C11: every call but the two that leave the error alone.
C11_ResettingCallsOnly ==
  (Ran /\ ~LeavesErrorAlone(call)) =>
    /\ Detail(error) = Detail(AloneError(call))
    /\ result = Returned(TRUE) => error \in NoError

\* isFloat accepted a number and the error of an earlier rejected call is
\* still there.
C11_StaleAfterIsFloat ==
  /\ Ran /\ call.fn = "isFloat" /\ result = Returned(TRUE)
  /\ error \notin NoError

\* check returned true for an absent argument and the error of an earlier
\* rejected call is still there.
C11_StaleAfterCheck ==
  /\ Ran /\ call.fn = "check" /\ result = Returned(TRUE)
  /\ error \notin NoError

(***************************************************************************)
(* Claims about the loop of ParameterChecker.check, checked under          *)
(* CheckSpec.                                                              *)
(***************************************************************************)
\* What one declared field comes to, taken on its own: skipped when it is
\* absent and not required, accepted, or the code it fails with.
Verdict(obj, e) ==
  LET v == Get(obj, e.name)
      rule == ruleOf(e.rule)
  IN IF v = Undefined
     THEN IF Truthy(rule.required) THEN "MISSING_REQUIRED" ELSE "skipped"
     ELSE LET r == dispatch(v, rule, e.name, NullV)
          IN IF r.result THEN "accepted" ELSE r.error.code

\* The declared fields with the array indices first, ascending, and the
\* other names after them as declared.
IndicesFirst(rules) ==
  SelectSeq(rules, LAMBDA e : e.name = "0")
  \o SelectSeq(rules, LAMBDA e : e.name = "1")
  \o SelectSeq(rules, LAMBDA e : e.name \notin {"0", "1"})

\* check, given an object, went through the fields fs in their order and
\* stopped at the first that fails.
FirstFailureDecides(fs) ==
  LET failing == { i \in DOMAIN fs :
                     Verdict(call.obj, fs[i]) \notin {"skipped", "accepted"} }
      first == CHOOSE i \in failing : \A j \in failing : i <= j
      last == IF failing = {} THEN Len(fs) ELSE first
  IN /\ (result = Returned(FALSE)) <=> (failing # {})
     /\ failing # {} => error.code = Verdict(call.obj, fs[first])
     /\ Len(trace) = last
     /\ \A i \in 1 .. last :
          /\ trace[i][1] = fs[i].name
          /\ (trace[i][2] = "skipped") <=> (Verdict(call.obj, fs[i]) = "skipped")

ReachesFields == Ran /\ call.fn = "check" /\ call.obj.t = "object"

\* C12 (as claimed): check goes through the declared fields in the order of
\* their declaration and stops at the first that fails: it returns false
\* exactly when some field fails, with the code of the first failing field;
\* no field after that one is evaluated; an absent field that is not
\* required is skipped.
C12_DeclarationOrder == ReachesFields => FirstFailureDecides(call.rules)

\* C12 (amended): the same, in the order Object.keys lists the fields: the
\* names that are array indices first, in ascending order, then the other
\* names in the order of their declaration.
C12_ObjectKeysOrder == ReachesFields => FirstFailureDecides(IndicesFirst(call.rules))

\* Declared as name, 1, 0 and evaluated as 0, 1, name: the field 0 is
\* accepted, the field 1 fails and decides, the field name is never
\* evaluated though it was declared first and would fail with another code.
C12_Witness ==
  /\ ReachesFields /\ Len(call.rules) = 3
  /\ call.rules[1].name = "name" /\ call.rules[2].name = "1"
  /\ call.rules[3].name = "0"
  /\ result = Returned(FALSE)
  /\ trace = << <<"0", "accepted">>, <<"1", "rejected">> >>
  /\ error.code = "TYPE_INVALID"
  /\ Verdict(call.obj, call.rules[1]) = "TYPE_UNKNOWN"

====
